---------------------------- MODULE Spec2Model ----------------------------
(***************************************************************************)
(* A model of the CHIP-8 interpreter of chip8/src/vm.ts: the class Mem     *)
(* (a 4096 byte buffer seeded with the font) and the class VM (load, tick, *)
(* step with its fetch / decode / execute switch, fetch, pop).             *)
(*                                                                         *)
(* Numbers are JavaScript numbers.  Every value the model reaches is an    *)
(* integer far inside the 32 bit range, so ToInt32 is the identity on the  *)
(* register values and the bitwise operators are the two's complement      *)
(* ones on unbounded integers.  The one non-integer the code produces is   *)
(* NaN, the result of Mem.u16 reading past the buffer.                     *)
(***************************************************************************)
EXTENDS Integers, Sequences, FiniteSets, TLC

(***************************************************************************)
(* Program constants.                                                      *)
(***************************************************************************)
MEMSIZE == 4096

PROGRAM_START == 512

\* The number of general purpose registers, Array(16) in the constructor.
NREGS == 16

\* Mem.u16 yields NaN when a cell is outside the buffer (undefined).  NaN is
\* kept apart from every instruction word, which is never negative.
NaN == -1

(***************************************************************************)
(* Bounds of the model.                                                    *)
(***************************************************************************)
\* The deepest call stack step() is explored with.
MaxStack == 3

\* The number of failed step() calls after which the host stops stepping.
MaxFails == 2

\* The number of load() calls the host makes.
MaxLoads == 2

\* The number of mem.setu16() calls the host makes.
MaxStores == 2

\* The call stack depth up to which nested CALLs are followed.
MaxDepth == 17

(***************************************************************************)
(* JavaScript's integer operators, on integers inside the 32 bit range.    *)
(***************************************************************************)
\* a >> n, the sign-propagating right shift
Shr(a, n) == a \div (2 ^ n)

\* a << n
Shl(a, n) == a * (2 ^ n)

RECURSIVE And(_, _)
\* a & b
And(a, b) ==
    IF a = 0 \/ b = 0 THEN 0
    ELSE IF a = -1 THEN b
    ELSE IF b = -1 THEN a
    ELSE (a % 2) * (b % 2) + 2 * And(a \div 2, b \div 2)

RECURSIVE Or(_, _)
\* a | b
Or(a, b) ==
    IF a = 0 THEN b
    ELSE IF b = 0 THEN a
    ELSE IF a = -1 \/ b = -1 THEN -1
    ELSE (IF a % 2 = 1 \/ b % 2 = 1 THEN 1 ELSE 0) + 2 * Or(a \div 2, b \div 2)

RECURSIVE Xor(_, _)
\* a ^ b
Xor(a, b) ==
    IF a = 0 THEN b
    ELSE IF b = 0 THEN a
    ELSE IF a = -1 THEN -b - 1
    ELSE IF b = -1 THEN -a - 1
    ELSE ((a + b) % 2) + 2 * Xor(a \div 2, b \div 2)

\* ToInt32 of a fetched word: NaN converts to 0, a 16 bit word to itself.
ToInt32(code) == IF code = NaN THEN 0 ELSE code

(***************************************************************************)
(* Number.prototype.toString(16): the lower case hexadecimal digits of a    *)
(* non-negative integer without leading zeros, "NaN" for NaN.              *)
(***************************************************************************)
HexDigits == <<"0", "1", "2", "3", "4", "5", "6", "7",
               "8", "9", "a", "b", "c", "d", "e", "f">>

RECURSIVE toString16(_)
toString16(n) ==
    IF n = NaN THEN <<"N", "a", "N">>
    ELSE IF n < 16 THEN <<HexDigits[n + 1]>>
    ELSE Append(toString16(n \div 16), HexDigits[(n % 16) + 1])

(***************************************************************************)
(* font.BYTES: the glyph table the Mem constructor writes at address 0.    *)
(* font.ts is not among the sources; the table is the standard CHIP-8 one   *)
(* (16 glyphs of 5 bytes).                                                 *)
(***************************************************************************)
fontBYTES ==
    <<240, 144, 144, 144, 240,    32,  96,  32,  32, 112,
      240,  16, 240, 128, 240,   240,  16, 240,  16, 240,
      144, 144, 240,  16,  16,   240, 128, 240,  16, 240,
      240, 128, 240, 144, 240,   240,  16,  32,  64,  64,
      240, 144, 240, 144, 240,   240, 144, 240,  16, 240,
      240, 144, 240, 144, 144,   224, 144, 224, 144, 224,
      240, 128, 128, 128, 240,   224, 144, 144, 144, 224,
      240, 128, 240, 128, 240,   240, 128, 240, 128, 128>>

(***************************************************************************)
(* class Mem.  The constructor leaves the buffer zero-filled (a new        *)
(* Uint8Array) with the font copied to address 0.  The Uint8Array buf is   *)
(* represented by the cells whose value differs from the one the           *)
(* constructor left: a function from those addresses to their bytes.       *)
(* An address outside 0 .. MEMSIZE-1 is not a cell: a read of it is        *)
(* undefined, a write to it is dropped.                                    *)
(***************************************************************************)
\* Whether i indexes a cell of the buffer; buf[i] is undefined otherwise.
InBuf(i) == i >= 0 /\ i < MEMSIZE

\* The Mem constructor: new Uint8Array(MEMSIZE), then write(0, font.BYTES);
\* the byte it leaves in cell a
constructed(a) == IF a < Len(fontBYTES) THEN fontBYTES[a + 1] % 256 ELSE 0

\* The buffer as the constructor leaves it: no cell differs
newMem == [a \in {} |-> 0]

\* this.buf[i], for a cell i
u8(buf, i) == IF i \in DOMAIN buf THEN buf[i] ELSE constructed(i)

\* this.buf[i] = value: a Uint8Array stores value modulo 256
setu8(buf, i, value) ==
    LET b == value % 256 IN
    IF ~InBuf(i) THEN buf
    ELSE IF b # constructed(i) THEN (i :> b) @@ buf
    ELSE IF i \in DOMAIN buf THEN [a \in DOMAIN buf \ {i} |-> buf[a]]
    ELSE buf

\* (this.buf[i] << 8) + this.buf[i + 1]: undefined << 8 is 0, and a sum with
\* undefined is NaN
\* u16 reading the low byte first
u16_little_endian(buf, i) ==
    IF ~InBuf(i + 1) THEN NaN
    ELSE (IF InBuf(i) THEN u8(buf, i) ELSE 0) + Shl(u8(buf, i + 1), 8)

u16(buf, i) ==
    IF ~InBuf(i + 1) THEN NaN
    ELSE Shl(IF InBuf(i) THEN u8(buf, i) ELSE 0, 8) + u8(buf, i + 1)

\* setu16 storing the low byte first
setu16_low_first(buf, i, value) ==
    setu8(setu8(buf, i, And(value, 255)), i + 1, Shr(value, 8))

setu16(buf, i, value) == setu8(setu8(buf, i, Shr(value, 8)), i + 1, And(value, 255))

RECURSIVE write(_, _, _)
\* for (const x of data) this.buf[i++] = x
write(buf, i, data) ==
    IF data = <<>> THEN buf
    ELSE write(setu8(buf, i, Head(data)), i + 1, Tail(data))

(***************************************************************************)
(* class VM.  A machine record m holds the fields step() reads and writes  *)
(* (pc, i, v, stack), the calls it made on the IO collaborator (io) and    *)
(* the value it threw (thrown, NoThrow when it returned).  A throw ends    *)
(* the step: what was assigned before it stays assigned.                   *)
(***************************************************************************)
NoThrow == [type |-> "none", message |-> <<>>]

\* new Error(`Unrecognized opcode: 0x${code.toString(16)}`)
unrecognizedOpcode(code) ==
    [type |-> "Error", message |-> <<"Unrecognized opcode: 0x">> \o toString16(code)]

\* new Error("Pop from empty stack")
PopFromEmptyStack == [type |-> "Error", message |-> <<"Pop from empty stack">>]

\* throw "TODO": the thrown value is a string, not an Error
TODO == [type |-> "string", message |-> <<"TODO">>]

\* throw that first takes back the advance of pc made by fetch()
throw_atomic(m, e) == [m EXCEPT !.thrown = e, !.pc = @ - 2]

throw(m, e) == [m EXCEPT !.thrown = e]

\* pop taking the oldest entry instead of the newest (Array.shift for pop)
pop_oldest(m) ==
    IF m.stack = <<>> THEN [m |-> throw(m, PopFromEmptyStack), value |-> NaN]
    ELSE [m |-> [m EXCEPT !.stack = Tail(m.stack)], value |-> Head(m.stack)]

\* pop without the check of undefined: on an empty stack it returns undefined
pop_unchecked(m) ==
    IF m.stack = <<>> THEN [m |-> m, value |-> NaN]
    ELSE [m |-> [m EXCEPT !.stack = SubSeq(m.stack, 1, Len(m.stack) - 1)],
          value |-> m.stack[Len(m.stack)]]

\* VM.pop: Array.pop removes and returns the last element, undefined if there
\* is none; the result is the machine and the value returned (value, read
\* only when nothing was thrown)
pop(m) ==
    IF m.stack = <<>> THEN [m |-> throw(m, PopFromEmptyStack), value |-> NaN]
    ELSE [m |-> [m EXCEPT !.stack = SubSeq(m.stack, 1, Len(m.stack) - 1)],
          value |-> m.stack[Len(m.stack)]]

\* CLS without its break: the case falls through into RET
op_CLS_fallthrough(m) ==
    LET r == pop([m EXCEPT !.io = Append(@, "clearDisplay")]) IN
    IF r.m.thrown # NoThrow THEN r.m ELSE [r.m EXCEPT !.pc = r.value]

\* 00E0 CLS
op_CLS(m) == [m EXCEPT !.io = Append(@, "clearDisplay")]

\* 00EE RET: this.pc = this.pop()
op_RET(m) ==
    LET r == pop(m) IN
    IF r.m.thrown # NoThrow THEN r.m ELSE [r.m EXCEPT !.pc = r.value]

\* JP masking the address to 8 bits
op_JP_byte(m, code) == [m EXCEPT !.pc = And(code, 255)]

\* 1nnn JP addr
op_JP(m, code) == [m EXCEPT !.pc = And(code, 4095)]

\* CALL with the conventional limit of 16 nested calls
op_CALL_capped(m, code) ==
    IF Len(m.stack) >= 16
    THEN throw(m, [type |-> "Error", message |-> <<"Stack overflow">>])
    ELSE [m EXCEPT !.stack = Append(@, m.pc), !.pc = And(code, 4095)]

\* 2nnn CALL addr
op_CALL(m, code) == [m EXCEPT !.stack = Append(@, m.pc), !.pc = And(code, 4095)]

\* 3xkk SE Vx, byte
op_SE_byte(m, byte1, byte2) ==
    LET x == And(byte1, 15) IN
    IF m.v[x] = byte2 THEN [m EXCEPT !.pc = @ + 2] ELSE m

\* 4xkk SNE Vx, byte
op_SNE_byte(m, byte1, byte2) ==
    LET x == And(byte1, 15) IN
    IF m.v[x] # byte2 THEN [m EXCEPT !.pc = @ + 2] ELSE m

\* 5xy0 SE Vx, Vy
op_SE(m, code, byte1, byte2) ==
    IF And(byte2, 15) = 0
    THEN LET x == And(byte1, 15)
             y == Shr(byte2, 8)
         IN  IF m.v[x] = m.v[y] THEN [m EXCEPT !.pc = @ + 2] ELSE m
    ELSE throw(m, unrecognizedOpcode(code))

\* 6xkk LD Vx, byte
op_LD_byte(m, byte1, byte2) ==
    LET x == And(byte1, 15) IN [m EXCEPT !.v[x] = byte2]

\* 7xkk ADD Vx, byte
op_ADD_byte(m, byte1, byte2) ==
    LET x == And(byte1, 15) IN [m EXCEPT !.v[x] = @ + byte2]

\* 8xy0 LD Vx, Vy
op_LD(m, x, y) == [m EXCEPT !.v[x] = m.v[y]]

\* 8xy1 OR Vx, Vy
op_OR(m, x, y) == [m EXCEPT !.v[x] = Or(@, m.v[y])]

\* 8xy2 AND Vx, Vy
op_AND(m, x, y) == [m EXCEPT !.v[x] = And(@, m.v[y])]

\* 8xy3 XOR Vx, Vy
op_XOR(m, x, y) == [m EXCEPT !.v[x] = Xor(@, m.v[y])]

\* 8xy4 ADD Vx, Vy: v[x] is assigned first, v[0xf] second
op_ADD(m, x, y) ==
    LET sum == m.v[x] + m.v[y]
        m1  == [m EXCEPT !.v[x] = And(sum, 15)]
    IN  [m1 EXCEPT !.v[15] = IF sum > 15 THEN 1 ELSE 0]

\* 8xy5 SUB Vx, Vy: v[0xf] is assigned first, v[x] second
op_SUB(m, x, y) ==
    LET vx == m.v[x]
        vy == m.v[y]
    IN  IF vx >= vy
        THEN [[m EXCEPT !.v[15] = 1] EXCEPT !.v[x] = vx - vy]
        ELSE [[m EXCEPT !.v[15] = 0] EXCEPT !.v[x] = 256 + vx - vy]

\* 8xy6 SHR Vx
op_SHR(m, x) ==
    LET v == m.v[x] IN
    [[m EXCEPT !.v[x] = Shr(v, 1)] EXCEPT !.v[15] = And(v, 1)]

\* 8xy7 SUBN Vx, Vy
op_SUBN(m, x, y) ==
    LET vx == m.v[x]
        vy == m.v[y]
    IN  IF vy >= vx
        THEN [[m EXCEPT !.v[15] = 1] EXCEPT !.v[x] = vy - vx]
        ELSE [[m EXCEPT !.v[15] = 0] EXCEPT !.v[x] = 256 + vy - vx]

\* 8xyE SHL Vx
op_SHL(m, x) ==
    LET v == m.v[x] IN
    [[m EXCEPT !.v[x] = Shl(v, 1)] EXCEPT !.v[15] = And(v, 1)]

\* case 8 of step(): the decode of nibble2, x and y, and the inner switch
op_8(m, code, byte1, byte2) ==
    LET nibble2 == And(byte2, 15)
        x == And(byte1, 15)
        y == Shr(byte2, 8)
    IN  CASE nibble2 = 0 -> op_LD(m, x, y)
          [] nibble2 = 1 -> op_OR(m, x, y)
          [] nibble2 = 2 -> op_AND(m, x, y)
          [] nibble2 = 3 -> op_XOR(m, x, y)
          [] nibble2 = 4 -> op_ADD(m, x, y)
          [] nibble2 = 5 -> op_SUB(m, x, y)
          [] nibble2 = 6 -> op_SHR(m, x)
          [] nibble2 = 7 -> op_SUBN(m, x, y)
          [] nibble2 = 14 -> op_SHL(m, x)
          [] OTHER -> throw(m, unrecognizedOpcode(code))

\* 9xy0 SNE Vx, Vy
op_SNE(m, code, byte1, byte2) ==
    IF And(byte2, 15) = 0
    THEN LET x == And(byte1, 15)
             y == Shr(byte2, 8)
         IN  IF m.v[x] # m.v[y] THEN [m EXCEPT !.pc = @ + 2] ELSE m
    ELSE throw(m, unrecognizedOpcode(code))

\* Annn LD I, addr
op_LD_I(m, code) == [m EXCEPT !.i = And(code, 4095)]

\* Bnnn JP V0, addr
op_JP_V0(m, code) == [m EXCEPT !.pc = m.v[0] + And(code, 4095)]

\* Cxkk RND Vx, byte; random is Math.floor(Math.random() * 256)
op_RND(m, byte1, byte2, random) ==
    LET x == And(byte1, 15) IN [m EXCEPT !.v[x] = And(random, byte2)]

\* Dxyn DRW Vx, Vy, nibble
op_DRW(m) == throw(m, TODO)

\* case 0 of step() with the inner default left out: an unknown 00kk is
\* ignored like SYS
op_0_silent(m, code, byte1, byte2) ==
    IF byte1 = 0
    THEN CASE byte2 = 224 -> op_CLS(m)
           [] byte2 = 238 -> op_RET(m)
           [] OTHER -> m
    ELSE m

\* case 0 of step()
op_0(m, code, byte1, byte2) ==
    IF byte1 = 0
    THEN CASE byte2 = 224 -> op_CLS(m)
           [] byte2 = 238 -> op_RET(m)
           [] OTHER -> throw(m, unrecognizedOpcode(code))
    ELSE m

\* VM.fetch: the word at pc, and pc advanced by 2
fetch(buf, m) == [code |-> u16(buf, m.pc), m |-> [m EXCEPT !.pc = @ + 2]]

\* The decode and the outer switch of step(), on the machine fetch() left
decode(m, code, random) ==
    LET byte1 == Shr(ToInt32(code), 8)
        byte2 == And(ToInt32(code), 255)
        nibble == Shr(byte1, 4)
    IN  CASE nibble = 0 -> op_0(m, code, byte1, byte2)
          [] nibble = 1 -> op_JP(m, code)
          [] nibble = 2 -> op_CALL(m, code)
          [] nibble = 3 -> op_SE_byte(m, byte1, byte2)
          [] nibble = 4 -> op_SNE_byte(m, byte1, byte2)
          [] nibble = 5 -> op_SE(m, code, byte1, byte2)
          [] nibble = 6 -> op_LD_byte(m, byte1, byte2)
          [] nibble = 7 -> op_ADD_byte(m, byte1, byte2)
          [] nibble = 8 -> op_8(m, code, byte1, byte2)
          [] nibble = 9 -> op_SNE(m, code, byte1, byte2)
          [] nibble = 10 -> op_LD_I(m, code)
          [] nibble = 11 -> op_JP_V0(m, code)
          [] nibble = 12 -> op_RND(m, byte1, byte2, random)
          [] nibble = 13 -> op_DRW(m)
          [] OTHER -> throw(m, unrecognizedOpcode(code))

\* VM.step
step(buf, m, random) ==
    LET f == fetch(buf, m) IN decode(f.m, f.code, random)

(***************************************************************************)
(* The inputs of the host: the programs it loads, the timestamps it ticks  *)
(* with, the values Math.random() yields.                                  *)
(***************************************************************************)
RECURSIVE Assemble(_)
\* The bytes of a sequence of instruction words, each big-endian
Assemble(words) ==
    IF words = <<>> THEN <<>>
    ELSE <<Shr(Head(words), 8), And(Head(words), 255)>> \o Assemble(Tail(words))

ProgramWords ==
    { <<\h6005>>,                       \* LD V0,05
      <<\h6FAB>>,                       \* LD VF,AB
      <<\h6F05, \h8F05>>,               \* LD VF,05 ; SUB VF,V0
      <<\h6F05, \h8F06>>,               \* LD VF,05 ; SHR VF
      <<\h60FF, \h7001>>,               \* LD V0,FF ; ADD V0,01
      <<\h6101, \h810E>>,               \* LD V1,01 ; SHL V1
      <<\h6203, \h6105, \h8125>>,       \* LD V2,03 ; LD V1,05 ; SUB V1,V2
      <<\h6201, \h6120, \h8124>>,       \* LD V2,01 ; LD V1,20 ; ADD V1,V2
      <<\h6101, \h5010>>,               \* LD V1,01 ; SE V0,V1
      <<\h6101, \h9010>>,               \* LD V1,01 ; SNE V0,V1
      <<\h2202, \h2204, \h00EE>>,       \* CALL 202 ; CALL 204 ; RET
      <<\h00EE>>,                       \* RET
      <<\h2200>>,                       \* CALL 200
      <<\h12F0>>,                       \* JP 2F0
      <<\h0123, \h1200>>,               \* SYS 123 ; JP 200
      <<\h1FFE>>,                       \* JP FFE
      <<\h00E0>>,                       \* CLS
      <<\h0123>>,                       \* SYS 123
      <<\hB2F0>>,                       \* JP V0,2F0
      <<\hA123>>,                       \* LD I,123
      <<\hC003>>,                       \* RND V0,03
      <<\hD001>>,                       \* DRW V0,V0,1
      <<\h3000>>,                       \* SE V0,00
      <<\h4000>>,                       \* SNE V0,00
      <<\h00FF>>, <<\h5011>>, <<\h9011>>, <<\h8008>>, <<\h800F>>,
      <<\hE09E>>, <<\hF000>> }          \* words no case of step() matches

\* The byte sequences load() is called with
Programs == { Assemble(w) : w \in ProgramWords } \cup { <<\h160, \h105>> }

\* The timestamps tick() is called with
Timestamps == {0, 16}

\* Programs of CALLs only, for the call stack to grow without bound
CallPrograms ==
    { Assemble(w) : w \in { <<\h2200>>,             \* CALL 200
                            <<\h2202, \h2202>>,     \* CALL 202 ; CALL 202
                            <<\h2202, \h2200>>,     \* CALL 202 ; CALL 200
                            <<\h2204, \h0000, \h2200>> } }

\* The arguments the host passes to mem.setu16(i, value)
Addresses == {0, 1, 511, 512, MEMSIZE - 2}

Values == {0, 255, \hF090, \h1234, \hFFFF, \h12345}

\* Math.floor(Math.random() * 256), read by RND only
Randoms(code) == IF Shr(ToInt32(code), 12) = 12 THEN 0 .. 255 ELSE {0}

(***************************************************************************)
(* The state: the fields of the VM (mem is mem.buf), and what the host     *)
(* observed of the latest call.                                            *)
(***************************************************************************)
VARIABLES
    mem,      \* this.mem.buf
    pc,       \* program counter
    i,        \* index register
    v,        \* general purpose registers
    stack,    \* call stack
    dt,       \* delay timer
    st,       \* sound timer
    io,       \* the calls the latest operation made on this.io
    thrown,   \* what the latest operation threw, NoThrow if it returned
    op,       \* the latest operation that ran code: "new", "tick", "step" or
              \* "setu16" (load() leaves the report of the one before it)
    last,     \* the latest step(): the word fetched, the fields before it and
              \* the number of load() calls made before it
    prev,     \* the step() before the latest one, likewise
    nfail,    \* the number of step() calls that threw
    nload,    \* the number of load() calls
    loaded,   \* the program given to the latest load()
    stored    \* the mem.setu16() calls: their number, the latest one's arguments

vars == <<mem, pc, i, v, stack, dt, st, io, thrown, op, last, prev, nfail, nload,
          loaded, stored>>

NoStep == [done |-> FALSE, code |-> 0, pc |-> 0, i |-> 0,
           v |-> [r \in 0 .. NREGS - 1 |-> 0], stack |-> <<>>,
           dt |-> 0, st |-> 0, nload |-> 0]

\* new VM(io)
Init ==
    /\ mem = newMem
    /\ pc = PROGRAM_START
    /\ i = 0
    /\ v = [r \in 0 .. NREGS - 1 |-> 0]
    /\ stack = <<>>
    /\ dt = 0
    /\ st = 0
    /\ io = <<>>
    /\ thrown = NoThrow
    /\ op = "new"
    /\ last = NoStep
    /\ prev = NoStep
    /\ nfail = 0
    /\ nload = 0
    /\ loaded = <<>>
    /\ stored = [n |-> 0, i |-> 0, value |-> 0]

\* load() writing the program from address 0 on
LoadFrom_zero(programs) ==
    /\ nload < MaxLoads
    /\ \E program \in programs :
        /\ mem' = write(mem, 0, program)
        /\ nload' = nload + 1
        /\ loaded' = program
        /\ UNCHANGED <<pc, i, v, stack, dt, st, io, thrown, op, last, prev, nfail,
                       stored>>

\* vm.load(program), the program taken from the given set
LoadFrom(programs) ==
    /\ nload < MaxLoads
    /\ \E program \in programs :
        /\ mem' = write(mem, PROGRAM_START, program)
        /\ nload' = nload + 1
        /\ loaded' = program
        /\ UNCHANGED <<pc, i, v, stack, dt, st, io, thrown, op, last, prev, nfail,
                       stored>>

\* vm.load(program)
Load == LoadFrom(Programs)

\* tick() counting both timers down with no floor at zero
Tick_countdown ==
    \E timestamp \in Timestamps :
        /\ dt' = dt - 1
        /\ st' = st - 1
        /\ io' = <<>>
        /\ thrown' = NoThrow
        /\ op' = "tick"
        /\ UNCHANGED <<mem, pc, i, v, stack, last, prev, nfail, nload,
                       loaded, stored>>

\* vm.tick(timestamp): the body is empty
Tick ==
    \E timestamp \in Timestamps :
        /\ io' = <<>>
        /\ thrown' = NoThrow
        /\ op' = "tick"
        /\ UNCHANGED <<mem, pc, i, v, stack, dt, st, last, prev, nfail, nload,
                       loaded, stored>>

\* vm.step(), explored while the call stack holds at most depth entries
StepWithin(depth) ==
    /\ nfail < MaxFails
    /\ \E random \in Randoms(u16(mem, pc)) :
        LET m == [pc |-> pc, i |-> i, v |-> v, stack |-> stack,
                  io |-> <<>>, thrown |-> NoThrow]
            r == step(mem, m, random)
        IN  /\ Len(r.stack) <= depth
            /\ pc' = r.pc
            /\ i' = r.i
            /\ v' = r.v
            /\ stack' = r.stack
            /\ io' = r.io
            /\ thrown' = r.thrown
            /\ op' = "step"
            /\ last' = [done |-> TRUE, code |-> u16(mem, pc), pc |-> pc, i |-> i,
                        v |-> v, stack |-> stack, dt |-> dt, st |-> st,
                        nload |-> nload]
            /\ prev' = last
            /\ nfail' = IF r.thrown = NoThrow THEN nfail ELSE nfail + 1
            /\ UNCHANGED <<mem, dt, st, nload, loaded, stored>>

\* vm.step()
Step == StepWithin(MaxStack)

Next == Load \/ Tick \/ Step

Spec == Init /\ [][Next]_vars

\* vm.mem.setu16(i, value)
Setu16 ==
    /\ stored.n < MaxStores
    /\ \E a \in Addresses, value \in Values :
        /\ mem' = setu16(mem, a, value)
        /\ stored' = [n |-> stored.n + 1, i |-> a, value |-> value]
        /\ io' = <<>>
        /\ thrown' = NoThrow
        /\ op' = "setu16"
        /\ UNCHANGED <<pc, i, v, stack, dt, st, last, prev, nfail, nload, loaded>>

\* A host that writes words into the memory of a new VM
NextMem == Setu16 \/ Tick

SpecMem == Init /\ [][NextMem]_vars

\* vm.load(program) with a program of CALLs
LoadCalls == LoadFrom(CallPrograms)

\* vm.step(), followed into deep recursion
StepDeep == StepWithin(MaxDepth)

\* A host that runs programs of CALLs
NextCall == LoadCalls \/ Tick \/ StepDeep

SpecCall == Init /\ [][NextCall]_vars

(***************************************************************************)
(* The claims.  The fields of an instruction word are the fixed bit slices *)
(* of the architecture: the class is bits 12..15, X bits 8..11, Y bits     *)
(* 4..7, N bits 0..3, KK bits 0..7, NNN bits 0..11.                        *)
(***************************************************************************)
IsWord(code) == code \in 0 .. 65535

WordClass(code) == code \div 4096

WordX(code) == (code \div 256) % 16

WordY(code) == (code \div 16) % 16

WordN(code) == code % 16

WordKK(code) == code % 256

WordNNN(code) == code % 4096

IsByte(n) == n \in 0 .. 255

\* The state is the one the latest step() left.
Stepped == op = "step" /\ last.done

\* C1: in every reachable state each of the 16 registers holds an integer in
\* [0,255].
C1_RegistersAreBytes == \A r \in 0 .. NREGS - 1 : IsByte(v[r])

\* C2: ADD Vx,Vy (8XY4) with X # 0xF, X # Y and v[X] = x, v[Y] = y in [0,255]
\* leaves v[X] = (x + y) mod 256 and VF = 1 if x + y > 255, else 0.
C2_AddRegister ==
    LET c == last.code
        x == last.v[WordX(c)]
        y == last.v[WordY(c)]
    IN  (/\ Stepped
         /\ IsWord(c) /\ WordClass(c) = 8 /\ WordN(c) = 4
         /\ WordX(c) # 15 /\ WordX(c) # WordY(c)
         /\ IsByte(x) /\ IsByte(y))
        => /\ v[WordX(c)] = (x + y) % 256
           /\ v[15] = IF x + y > 255 THEN 1 ELSE 0

\* C3: SUB Vx,Vy (8XY5) with X # 0xF, X # Y and v[X] = x, v[Y] = y in [0,255]
\* leaves VF = 1 if x >= y, else 0, and v[X] = (x - y) mod 256.
C3_SubRegister ==
    LET c == last.code
        x == last.v[WordX(c)]
        y == last.v[WordY(c)]
    IN  (/\ Stepped
         /\ IsWord(c) /\ WordClass(c) = 8 /\ WordN(c) = 5
         /\ WordX(c) # 15 /\ WordX(c) # WordY(c)
         /\ IsByte(x) /\ IsByte(y))
        => /\ v[15] = IF x >= y THEN 1 ELSE 0
           /\ v[WordX(c)] = (x - y) % 256

\* C4: SE Vx,Vy (5XY0) leaves pc at the instruction's address + 4 if
\* v[X] = v[Y] and + 2 otherwise; SNE Vx,Vy (9XY0) leaves it at + 4 if
\* v[X] # v[Y] and + 2 otherwise; Y is bits 4..7 of the word.
C4_SkipRegister ==
    LET c == last.code
        x == last.v[WordX(c)]
        y == last.v[WordY(c)]
    IN  /\ (Stepped /\ IsWord(c) /\ WordClass(c) = 5 /\ WordN(c) = 0)
             => pc = last.pc + (IF x = y THEN 4 ELSE 2)
        /\ (Stepped /\ IsWord(c) /\ WordClass(c) = 9 /\ WordN(c) = 0)
             => pc = last.pc + (IF x # y THEN 4 ELSE 2)

\* C5: SHL Vx (8XYE) with X # 0xF and v[X] = x in [0,255] leaves
\* VF = (x >> 7) & 1, the bit shifted out of the top.
C5_ShlFlag ==
    LET c == last.code
        x == last.v[WordX(c)]
    IN  (/\ Stepped
         /\ IsWord(c) /\ WordClass(c) = 8 /\ WordN(c) = 14
         /\ WordX(c) # 15
         /\ IsByte(x))
        => v[15] = (x \div 128) % 2

\* C6: ADD Vx,byte (7Xkk) with v[X] = x in [0,255] leaves
\* v[X] = (x + kk) mod 256 and, when X # 0xF, leaves VF unchanged.
C6_AddByte ==
    LET c == last.code
        x == last.v[WordX(c)]
    IN  (/\ Stepped
         /\ IsWord(c) /\ WordClass(c) = 7
         /\ IsByte(x))
        => /\ v[WordX(c)] = (x + WordKK(c)) % 256
           /\ WordX(c) # 15 => v[15] = last.v[15]

RET == \h00EE

\* C7: CALL nnn executed at address a pushes a + 2 and sets pc = nnn; a RET
\* on a non-empty stack sets pc to the entry pushed last and removes exactly
\* that entry; after a CALL followed by a RET as the next instruction the
\* stack is what it was before the CALL and pc is the address after the CALL.
C7_CallRetLifo ==
    LET c == last.code
        n == Len(last.stack)
    IN  /\ (Stepped /\ IsWord(c) /\ WordClass(c) = 2)
             => /\ thrown = NoThrow
                /\ stack = Append(last.stack, last.pc + 2)
                /\ pc = WordNNN(c)
        /\ (Stepped /\ c = RET /\ n > 0)
             => /\ thrown = NoThrow
                /\ pc = last.stack[n]
                /\ stack = SubSeq(last.stack, 1, n - 1)
        /\ (Stepped /\ c = RET /\ prev.done /\ IsWord(prev.code)
                /\ WordClass(prev.code) = 2)
             => /\ stack = prev.stack
                /\ pc = prev.pc + 2

\* C7 happens: a RET has just returned from the inner of two nested CALLs,
\* to the address after that CALL, and the outer return address is still on
\* the stack.
C7_Witness ==
    /\ Stepped /\ last.code = RET /\ thrown = NoThrow
    /\ prev.done /\ IsWord(prev.code) /\ WordClass(prev.code) = 2
    /\ Len(last.stack) = 2 /\ last.stack[1] # last.stack[2]
    /\ Len(stack) = 1
    /\ pc = prev.pc + 2

\* C8: a RET (00EE) executed on an empty call stack makes step() fail with
\* the stack-underflow error, which is not the unrecognized-opcode error.
C8_RetUnderflow ==
    (Stepped /\ last.code = RET /\ last.stack = <<>>)
        => /\ thrown.type = "Error"
           /\ thrown.message = <<"Pop from empty stack">>
           /\ Head(thrown.message) # "Unrecognized opcode: 0x"

\* C8 happens: a RET underflows after an earlier CALL was returned from, the
\* RET before it having emptied the stack.
C8_Witness ==
    /\ Stepped /\ last.code = RET /\ last.stack = <<>>
    /\ thrown # NoThrow
    /\ prev.done /\ prev.code = RET /\ Len(prev.stack) = 1

\* The words no case of step() implements, as the claim lists them.
Unimplemented(c) ==
    /\ IsWord(c)
    /\ \/ c \div 256 = 0 /\ WordKK(c) \notin {\hE0, \hEE}
       \/ WordClass(c) \in {5, 9} /\ WordN(c) # 0
       \/ WordClass(c) = 8 /\ WordN(c) \notin {0, 1, 2, 3, 4, 5, 6, 7, 14}
       \/ WordClass(c) \in {14, 15}

RECURSIVE HexValue(_)
\* The number a sequence of lower case hexadecimal digits denotes
HexValue(digits) ==
    IF digits = <<>> THEN 0
    ELSE LET d == digits[Len(digits)]
             k == CHOOSE j \in 0 .. 15 :
                     <<"0", "1", "2", "3", "4", "5", "6", "7", "8", "9",
                       "a", "b", "c", "d", "e", "f">>[j + 1] = d
         IN  16 * HexValue(SubSeq(digits, 1, Len(digits) - 1)) + k

\* C9: a fetched word that matches no implemented opcode makes step() fail
\* with the unrecognized-opcode error whose message carries exactly the
\* fetched value in hexadecimal; it is never executed as a no-op.
C9_UnrecognizedOpcode ==
    (Stepped /\ Unimplemented(last.code))
        => /\ thrown.type = "Error"
           /\ Len(thrown.message) > 1
           /\ Head(thrown.message) = "Unrecognized opcode: 0x"
           /\ \A k \in 2 .. Len(thrown.message) :
                  \E j \in 1 .. 16 : HexDigits[j] = thrown.message[k]
           /\ HexValue(Tail(thrown.message)) = last.code

\* C9 happens: the word 0xF000 was fetched and the step failed with
\* "Unrecognized opcode: 0xf000".
C9_Witness ==
    /\ Stepped /\ last.code = \hF000
    /\ thrown.type = "Error"
    /\ thrown.message = <<"Unrecognized opcode: 0x", "f", "0", "0", "0">>

\* C10: every failure of step() is an unrecognized-opcode error or a
\* stack-underflow error.
C10_TwoErrorKinds ==
    (Stepped /\ thrown # NoThrow)
        => /\ thrown.type = "Error"
           /\ \/ thrown.message = <<"Pop from empty stack">>
              \/ Head(thrown.message) = "Unrecognized opcode: 0x"

CLS == \h00E0

\* The registers, the index register, the call stack and the timers are the
\* ones the latest step() found.
RegistersKept ==
    /\ v = last.v
    /\ i = last.i
    /\ stack = last.stack
    /\ dt = last.dt
    /\ st = last.st

\* C11: CLS (00E0) calls the display's clear operation exactly once and
\* changes no register: v, i, the call stack and the timers are unchanged
\* and pc is the instruction's address + 2.
C11_ClsClearsOnce ==
    (Stepped /\ last.code = CLS)
        => /\ io = <<"clearDisplay">>
           /\ RegistersKept
           /\ pc = last.pc + 2

\* C11 happens: CLS was executed with a return address on the call stack.
C11_Witness ==
    /\ Stepped /\ last.code = CLS
    /\ last.stack # <<>>
    /\ io = <<"clearDisplay">>

\* C12: JP nnn (1nnn) leaves pc = nnn whatever pc was, and leaves v, i, the
\* call stack and the timers unchanged.
C12_JumpSetsPc ==
    (Stepped /\ IsWord(last.code) /\ WordClass(last.code) = 1)
        => /\ pc = WordNNN(last.code)
           /\ thrown = NoThrow
           /\ RegistersKept

\* C12 happens: JP 0x2F0 was executed (from the program origin), and a JP
\* was executed from another address.
C12_Witness ==
    /\ Stepped /\ last.code = \h12F0 /\ pc = \h2F0
    /\ prev.done /\ IsWord(prev.code) /\ WordClass(prev.code) = 1
    /\ prev.pc # last.pc

\* C13: on a fresh interpreter load(bytes) writes the bytes verbatim, in
\* order, from 0x200 on and nowhere else, and the first step() executes the
\* big-endian word bytes[0], bytes[1]: after load([0x60 | X, kk]) and one
\* step, v[X] = kk, every other register is 0 and pc = 0x202.
C13_LoadThenStep ==
    /\ nload = 1
        => /\ \A a \in DOMAIN mem :
                a \in PROGRAM_START .. PROGRAM_START + Len(loaded) - 1
           /\ \A k \in 1 .. Len(loaded) :
                IsByte(loaded[k]) => u8(mem, PROGRAM_START + k - 1) = loaded[k]
    /\ (/\ nload = 1 /\ op = "step"
        /\ last.done /\ ~prev.done /\ last.nload = 1
        /\ Len(loaded) >= 2 /\ IsByte(loaded[1]) /\ IsByte(loaded[2]))
        => /\ last.pc = PROGRAM_START
           /\ last.code = 256 * loaded[1] + loaded[2]
           /\ loaded[1] \div 16 = 6
                => /\ v = [r \in 0 .. NREGS - 1 |->
                            IF r = loaded[1] % 16 THEN loaded[2] ELSE 0]
                   /\ i = 0 /\ stack = <<>> /\ dt = 0 /\ st = 0
                   /\ pc = PROGRAM_START + 2
                   /\ thrown = NoThrow

\* C13 happens: load([0x6F, 0xAB]) on a fresh interpreter and one step left
\* 0xAB in VF.
C13_Witness ==
    /\ nload = 1 /\ op = "step"
    /\ last.done /\ ~prev.done /\ last.nload = 1
    /\ loaded = <<\h6F, \hAB>>
    /\ v[15] = \hAB

\* C14: the timers change only through tick(): no step() and no load()
\* changes dt or st, a tick() leaves each timer at most what it was and never
\* below zero, and both timers are in [0,255] in every reachable state.
C14_TimersOnlyTick ==
    /\ [](dt \in 0 .. 255 /\ st \in 0 .. 255)
    /\ [][/\ dt' <= dt /\ st' <= st
          /\ op' # "tick" => (dt' = dt /\ st' = st)]_vars

\* C14 happens: tick() ran after a program was loaded and stepped.
C14_Witness ==
    /\ op = "tick"
    /\ last.done /\ last.nload >= 1
    /\ dt \in 0 .. 255 /\ st \in 0 .. 255

\* C15: the cells below 0x200, the font table included, hold what the
\* constructor left there in every reachable state: step() and tick() write
\* no cell, and load() writes no cell below 0x200.
C15_LowMemoryKept ==
    /\ [](\A a \in 0 .. PROGRAM_START - 1 : u8(mem, a) = constructed(a))
    /\ [][/\ nload' = nload => mem' = mem
          /\ \A a \in (DOMAIN mem \cup DOMAIN mem') :
                a < PROGRAM_START => u8(mem', a) = u8(mem, a)]_vars

\* C15 happens: a program was loaded and stepped, then tick() ran, and cell 0
\* holds the first font byte.
C15_Witness ==
    /\ op = "tick"
    /\ last.done /\ nload >= 1
    /\ mem # newMem
    /\ u8(mem, 0) = fontBYTES[1]

\* C16: for an address in [0,4094] and a non-negative value, setu16(addr,
\* value) followed by u16(addr) gives value & 0xFFFF, with the high byte at
\* addr and the low byte at addr + 1, and no other cell changes.
C16_Word16RoundTrip ==
    [][(op' = "setu16" /\ stored' # stored)
        => LET a == stored'.i
               value == stored'.value
           IN  /\ a \in 0 .. MEMSIZE - 2 /\ value >= 0
               /\ u16(mem', a) = And(value, 65535)
               /\ u8(mem', a) = (value \div 256) % 256
               /\ u8(mem', a + 1) = value % 256
               /\ \A b \in (DOMAIN mem \cup DOMAIN mem') \ {a, a + 1} :
                    u8(mem', b) = u8(mem, b)]_vars

\* C16 happens: a value above 0xFFFF was stored at the last address, 4094,
\* and reads back as its low 16 bits.
C16_Witness ==
    /\ op = "setu16"
    /\ stored.i = MEMSIZE - 2 /\ stored.value > 65535
    /\ u16(mem, stored.i) = stored.value % 65536

\* C17: CALL never fails because of the depth of the call stack: every CALL
\* of a run of CALLs succeeds and appends its return address, at 16 entries
\* and beyond, and no step fails with an overflow error.
C17_CallUnbounded ==
    /\ (Stepped /\ IsWord(last.code) /\ WordClass(last.code) = 2)
        => /\ thrown = NoThrow
           /\ Len(stack) = Len(last.stack) + 1
           /\ \A k \in 1 .. Len(last.stack) : stack[k] = last.stack[k]
           /\ stack[Len(stack)] = last.pc + 2
    /\ thrown # NoThrow => thrown = unrecognizedOpcode(last.code)

\* C17 happens: the seventeenth nested CALL succeeded, no RET between them.
C17_Witness ==
    /\ Stepped /\ IsWord(last.code) /\ WordClass(last.code) = 2
    /\ thrown = NoThrow
    /\ Len(stack) = 17
    /\ \A k \in 1 .. Len(stack) : stack[k] \in {\h202, \h204}

\* C18: a step() that fails (unrecognized opcode, RET on an empty call
\* stack, DRW) leaves pc at the failing instruction's address + 2 and leaves
\* v, i, the call stack, the timers and the memory as they were.
C18_FailureKeepsAllButPc ==
    /\ []((Stepped /\ thrown # NoThrow)
            => /\ pc = last.pc + 2
               /\ RegistersKept)
    /\ [][(op' = "step" /\ thrown' # NoThrow /\ nload' = nload)
            => mem' = mem]_vars

\* C18 happens: after LD V0,05 the next word is not an instruction and the
\* step fails with V0 = 5 kept and pc advanced.
C18_Witness ==
    /\ Stepped
    /\ thrown = unrecognizedOpcode(0)
    /\ last.v[0] = 5 /\ v = last.v
    /\ pc = last.pc + 2

\* The flag of the arithmetic instruction c for v[X] = x, v[Y] = y: carry,
\* no borrow, or the bit shifted out.
Flag(c, x, y) ==
    CASE WordN(c) = 4  -> IF x + y > 255 THEN 1 ELSE 0
      [] WordN(c) = 5  -> IF x >= y THEN 1 ELSE 0
      [] WordN(c) = 6  -> x % 2
      [] WordN(c) = 7  -> IF y >= x THEN 1 ELSE 0
      [] WordN(c) = 14 -> (x \div 128) % 2

\* C19: when the destination of ADD (8XY4), SUB (8XY5), SHR (8XY6),
\* SUBN (8XY7) or SHL (8XYE) is VF itself (X = 0xF), VF holds the flag after
\* the step, not the arithmetic result, for all five instructions alike.
C19_FlagWinsInVF ==
    LET c == last.code
        x == last.v[15]
        y == last.v[WordY(c)]
    IN  (/\ Stepped
         /\ IsWord(c) /\ WordClass(c) = 8 /\ WordN(c) \in {4, 5, 6, 7, 14}
         /\ WordX(c) = 15
         /\ IsByte(x) /\ IsByte(y))
        => v[15] = Flag(c, x, y)

\* C20: in every state reachable by load() and step(), steps after a failed
\* one included, 0 <= pc <= 4094, so that fetch() reads two cells of memory.
C20_PcInsideMemory == pc \in 0 .. MEMSIZE - 2

=============================================================================
